---------------------------- MODULE Spec2Model ----------------------------
(***************************************************************************)
(* A model of flexynesis' data module (src/flexynesis/data.py):            *)
(*   - TripletMultiOmicDataset: anchor / positive / negative sampling;     *)
(*   - DataImporter: cleanup_data, get_labels, harmonize, normalize_data,  *)
(*     encode_labels and the import_data pipeline that sequences them.     *)
(* Python indices are kept 0-based.  Tables are records of a row index, a  *)
(* column index and a matrix of cells.                                     *)
(***************************************************************************)
EXTENDS Integers, Sequences, FiniteSets, TLC

(***************************************************************************)
(* Bounds of the model.                                                    *)
(***************************************************************************)
MaxSamples == 4
NumLabels == 3
MaxCleanRuns == 2
MaxFeatures == 3
MaxAnnRows == 3

VARIABLES
    \* ---- TripletMultiOmicDataset ----
    ann_main,          \* self.dataset.ann[self.main_var]: position -> label
    labels_set,        \* self.labels_set
    label_to_indices,  \* self.label_to_indices
    tpc,               \* where the triplet dataset / the current request is
    index,             \* __getitem__'s argument
    label,             \* the anchor's label
    positive_index,
    negative_label,
    negative_index,
    terror,            \* the exception a request ended with
    search_turn,       \* parity of the turns of the while loop taken so far
    \* ---- cleanup_data, called on its own ----
    cl_cfg,            \* self.variance_threshold, self.na_threshold
    cl_dat,            \* the cohort: layer name -> table
    cl_prev,           \* the cohort the last call was given
    cl_runs,           \* calls made
    \* ---- harmonize, called on its own ----
    hz_types,          \* self.data_types
    hz_in,             \* the arguments: [dat1, dat2], layer name -> table
    hz_out,            \* what harmonize returned: [dat1, dat2]
    hz_pc,
    \* ---- get_labels, called on its own ----
    gl_in,             \* the arguments: [dat, ann]
    gl_out,            \* what get_labels returned: [dat, ann, samples]
    gl_pc,
    \* ---- DataImporter.import_data ----
    icfg,              \* data_types, log_transform, concatenate, min_features, top_percentile
    train_files,       \* os.listdir(training_path)
    test_files,        \* os.listdir(testing_path)
    ipc,               \* the statement import_data is about to run
    ierror,            \* the exception import_data ended with
    training_data,     \* what read_data returned: file stem -> table
    testing_data,
    train_dat,
    train_ann,
    train_samples,
    test_dat,
    test_ann,
    test_samples,
    train_scaled,      \* train_dat as rebound by line 255
    test_scaled,       \* test_dat as rebound by line 256
    scalers,           \* self.scalers
    encoders,          \* self.encoders
    training_dataset,
    testing_dataset,
    scaler_fits,       \* the cohorts self.scalers was fitted on, in order
    reapplied,         \* later calls of normalize_data(test_dat, fit=False)
    train_features,    \* layer name -> feature ids, as process_data returned them
    test_features,
    ranker_calls,      \* the cohorts filter_by_laplacian was called on, in order
    \* ---- filter, called on its own ----
    fl_in,             \* the arguments: [dat, min_features, top_percentile]
    fl_requested,      \* layer name -> the topN the ranker was called with
    fl_out,            \* what filter returned
    fl_pc,
    \* ---- MultiomicDataset ----
    ds,                \* the dataset: [dat, ann, features, samples]
    ds_call,           \* the last call made on it and its argument
    ds_out,            \* what the call returned
    ds_error,          \* the exception the call ended with
    \* ---- normalize_data, called on its own ----
    nz_scalers,        \* self.scalers
    nz_call,           \* the last call: [data, scaler_type, fit]
    nz_out,            \* what it returned
    nz_error           \* the exception it ended with

tvars == <<ann_main, labels_set, label_to_indices, tpc, index, label,
           positive_index, negative_label, negative_index, terror,
           search_turn>>

cvars == <<cl_cfg, cl_dat, cl_prev, cl_runs>>

hvars == <<hz_types, hz_in, hz_out, hz_pc>>

gvars == <<gl_in, gl_out, gl_pc>>

ivars == <<icfg, train_files, test_files, ipc, ierror, training_data,
           testing_data, train_dat, train_ann, train_samples, test_dat,
           test_ann, test_samples, train_scaled, test_scaled, scalers,
           encoders, training_dataset, testing_dataset, scaler_fits,
           reapplied, train_features, test_features, ranker_calls>>

fvars == <<fl_in, fl_requested, fl_out, fl_pc>>

dvars == <<ds, ds_call, ds_out, ds_error>>

nvars == <<nz_scalers, nz_call, nz_out, nz_error>>

vars == <<tvars, cvars, hvars, gvars, ivars, fvars, dvars, nvars>>

\* the parts a specification leaves alone
notTriplet == <<cvars, hvars, gvars, ivars, fvars, dvars, nvars>>

notCleanup == <<tvars, hvars, gvars, ivars, fvars, dvars, nvars>>

notHarmonize == <<tvars, cvars, gvars, ivars, fvars, dvars, nvars>>

notLabels == <<tvars, cvars, hvars, ivars, fvars, dvars, nvars>>

notImport == <<tvars, cvars, hvars, gvars, fvars, dvars, nvars>>

notFilter == <<tvars, cvars, hvars, gvars, ivars, dvars, nvars>>

notDataset == <<tvars, cvars, hvars, gvars, ivars, fvars, nvars>>

notNormalize == <<tvars, cvars, hvars, gvars, ivars, fvars, dvars>>

\* Python's None in a field that otherwise holds an integer
None == 0 - 99

NoError == "None"

\* no triplet dataset in play
IdleTriplet ==
    /\ ann_main = <<>>
    /\ labels_set = {}
    /\ label_to_indices = <<>>
    /\ tpc = "none"
    /\ index = None
    /\ label = None
    /\ positive_index = None
    /\ negative_label = None
    /\ negative_index = None
    /\ terror = NoError
    /\ search_turn = 0

IdleCleanup ==
    /\ cl_cfg = <<>>
    /\ cl_dat = <<>>
    /\ cl_prev = <<>>
    /\ cl_runs = 0

IdleHarmonize ==
    /\ hz_types = <<>>
    /\ hz_in = <<>>
    /\ hz_out = <<>>
    /\ hz_pc = "none"

IdleLabels ==
    /\ gl_in = <<>>
    /\ gl_out = <<>>
    /\ gl_pc = "none"

\* no call made on the dataset yet
NoCall == [op |-> "none", arg |-> 0]

\* no filter call in play
IdleFilter ==
    /\ fl_in = <<>>
    /\ fl_requested = <<>>
    /\ fl_out = <<>>
    /\ fl_pc = "none"

\* no dataset in play
IdleDataset ==
    /\ ds = <<>>
    /\ ds_call = NoCall
    /\ ds_out = <<>>
    /\ ds_error = NoError

\* no importer used for normalize_data alone
IdleNormalize ==
    /\ nz_scalers = <<>>
    /\ nz_call = NoCall
    /\ nz_out = <<>>
    /\ nz_error = NoError

\* no import_data call in play
IdleImport ==
    /\ icfg = <<>>
    /\ train_files = {}
    /\ test_files = {}
    /\ ipc = "none"
    /\ ierror = <<>>
    /\ training_data = <<>>
    /\ testing_data = <<>>
    /\ train_dat = <<>>
    /\ train_ann = <<>>
    /\ train_samples = <<>>
    /\ test_dat = <<>>
    /\ test_ann = <<>>
    /\ test_samples = <<>>
    /\ train_scaled = <<>>
    /\ test_scaled = <<>>
    /\ scalers = <<>>
    /\ encoders = <<>>
    /\ training_dataset = <<>>
    /\ testing_dataset = <<>>
    /\ scaler_fits = <<>>
    /\ reapplied = 0
    /\ train_features = <<>>
    /\ test_features = <<>>
    /\ ranker_calls = <<>>

(***************************************************************************)
(* Sequences and tables.                                                   *)
(* A table (pandas DataFrame) is [index, columns, cells]: the row labels,  *)
(* the column labels and cells[r][c].  Labels are integers.  Cells of a    *)
(* data layer are counted in halves (a cell 3 is the number 1.5), so that  *)
(* the median of two whole numbers is again a cell; NaN is a missing cell. *)
(***************************************************************************)
NaN == 0 - 1

Whole(v) == v + v

RECURSIVE SumSeq(_)
SumSeq(s) == IF s = <<>> THEN 0 ELSE Head(s) + SumSeq(Tail(s))

\* the elements of a set of integers, ascending
RECURSIVE SortedSeq(_)
SortedSeq(S) ==
    IF S = {} THEN <<>>
    ELSE LET m == CHOOSE x \in S : \A y \in S : x <= y
         IN  <<m>> \o SortedSeq(S \ {m})

Range(s) == { s[k] : k \in DOMAIN s }

TakeSeq(s, pos) == [k \in 1 .. Len(pos) |-> s[pos[k]]]

\* positional row / column selection (df.loc[mask, :], df.loc[:, mask])
RowsAt(t, pos) ==
    [t EXCEPT !.index = TakeSeq(t.index, pos),
              !.cells = TakeSeq(t.cells, pos)]

ColsAt(t, pos) ==
    [t EXCEPT !.columns = TakeSeq(t.columns, pos),
              !.cells = [r \in 1 .. Len(t.cells) |-> TakeSeq(t.cells[r], pos)]]

ColumnOf(t, c) == [r \in 1 .. Len(t.index) |-> t.cells[r][c]]

\* pandas reductions skip NaN
Present(row) == { p \in 1 .. Len(row) : row[p] # NaN }

CountOf(row) == Cardinality(Present(row))

Sum1(row) == SumSeq([p \in 1 .. Len(row) |-> IF row[p] = NaN THEN 0 ELSE row[p]])

Sum2(row) == SumSeq([p \in 1 .. Len(row) |-> IF row[p] = NaN THEN 0 ELSE row[p] * row[p]])

\* n * (n - 1) times the sample variance (ddof = 1), in squared halves
Spread(row) == CountOf(row) * Sum2(row) - Sum1(row) * Sum1(row)

\* median over the non-missing cells (of a row that has some)
MedianOf(row) ==
    LET vals == SortSeq(TakeSeq(row, SortedSeq(Present(row))), LAMBDA a, b : a < b)
        n == Len(vals)
    IN  IF n % 2 = 1 THEN vals[(n + 1) \div 2]
        ELSE (vals[n \div 2] + vals[(n \div 2) + 1]) \div 2


(***************************************************************************)
(* TripletMultiOmicDataset                                                 *)
(***************************************************************************)
LabelValues == 0 .. (NumLabels - 1)

\* len(self.dataset)
DatasetLen == Cardinality(DOMAIN ann_main)

\* MultiomicDataset.__getitem__ indexes tensors: an integer index outside
\* [-len, len) raises IndexError, a negative one counts from the end.
InRange(i) == (0 - DatasetLen) <= i /\ i < DatasetLen

SamplePos(i) == IF i < 0 THEN i + DatasetLen ELSE i

\* np.where(labels.numpy() == label)[0]
WhereLabel(labels, l) == { i \in DOMAIN labels : labels[i] = l }

\* set(labels.numpy())
LabelsSetOf(labels) == { labels[i] : i \in DOMAIN labels }

\* get_label_indices: (labels_set, label_to_indices)
get_label_indices(labels) ==
    [ls |-> LabelsSetOf(labels),
     lti |-> [l \in LabelsSetOf(labels) |-> WhereLabel(labels, l)]]

\* list(self.labels_set - set([label]))
NegativeLabels(ls, l) == ls \ {l}

\* the while condition of the positive search
\* (mutant: the loop is never entered, as an `if` that draws nothing would)
SearchAgainNever(p, i) == FALSE

SearchAgain(p, i) == p = i

\* a MultiomicDataset with 1..MaxSamples samples, main variable encoded
\* ---- MultiomicDataset ------------------------------------------------------
\* a tensor or array of n rows takes the indices -n .. n - 1
Indexable(rows, i) == (0 - Len(rows)) <= i /\ i < Len(rows)

\* the row an index selects, counted from 1
RowOf(rows, i) == IF i < 0 THEN rows[i + Len(rows) + 1] ELSE rows[i + 1]

\* lines 72-85: [dat, ann, error]
getitem(d, i) ==
    IF \E x \in DOMAIN d.dat : ~Indexable(d.dat[x], i)
    THEN [dat |-> <<>>, ann |-> <<>>, error |-> "IndexError"]
    ELSE IF \E v \in DOMAIN d.ann : ~Indexable(d.ann[v], i)
    THEN [dat |-> <<>>, ann |-> <<>>, error |-> "IndexError"]
    ELSE [dat |-> [x \in DOMAIN d.dat |-> RowOf(d.dat[x], i)],
          ann |-> [v \in DOMAIN d.ann |-> RowOf(d.ann[v], i)],
          error |-> NoError]

\* lines 87-93
len(d) == Len(d.samples)

\* the dataset a triplet dataset is built on: one layer whose row tells the
\* sample, and the labels as the variable "y"
DatasetOf(labels) ==
    LET n == Cardinality(DOMAIN labels)
    IN  [dat |-> [x \in {"expr"} |-> [r \in 1 .. n |-> <<r, 10 + r>>]],
         ann |-> [v \in {"y"} |-> [r \in 1 .. n |-> labels[r - 1]]],
         features |-> [x \in {"expr"} |-> <<1, 2>>],
         samples |-> [r \in 1 .. n |-> r]]

TripletInit ==
    /\ IdleCleanup /\ IdleHarmonize /\ IdleLabels /\ IdleImport /\ IdleFilter /\ IdleNormalize
    /\ \E n \in 1 .. MaxSamples : ann_main \in [0 .. (n - 1) -> LabelValues]
    /\ labels_set = {}
    /\ label_to_indices = <<>>
    /\ tpc = "new"
    /\ index = None
    /\ label = None
    /\ positive_index = None
    /\ negative_label = None
    /\ negative_index = None
    /\ terror = NoError
    /\ search_turn = 0
    /\ ds = DatasetOf(ann_main)
    /\ ds_call = NoCall
    /\ ds_out = <<>>
    /\ ds_error = NoError

\* TripletMultiOmicDataset.__init__
TripletConstruct ==
    /\ tpc = "new"
    /\ labels_set' = get_label_indices(ann_main).ls
    /\ label_to_indices' = get_label_indices(ann_main).lti
    /\ tpc' = "idle"
    /\ UNCHANGED <<ann_main, index, label, positive_index, negative_label,
                   negative_index, terror, search_turn>>
    /\ UNCHANGED notTriplet

\* __getitem__(i), lines 28-31: fetch the anchor, start the positive search
GetItemStart(i) ==
    /\ tpc \in {"idle", "returned", "raised"}
    /\ index' = i
    /\ negative_label' = None
    /\ negative_index' = None
    /\ search_turn' = 0
    /\ IF InRange(i)
       THEN /\ label' = ann_main[SamplePos(i)]
            /\ positive_index' = i
            /\ tpc' = "search"
            /\ terror' = NoError
       ELSE /\ label' = None
            /\ positive_index' = None
            /\ tpc' = "raised"
            /\ terror' = "IndexError"
    /\ UNCHANGED <<ann_main, labels_set, label_to_indices>>
    /\ UNCHANGED notTriplet

\* one turn of `while positive_index == index`: draw p from the label's indices
DrawPositive(p) ==
    /\ tpc = "search"
    /\ SearchAgain(positive_index, index)
    /\ p \in label_to_indices[label]
    /\ positive_index' = p
    /\ search_turn' = 1 - search_turn
    /\ UNCHANGED <<ann_main, labels_set, label_to_indices, tpc, index, label,
                   negative_label, negative_index, terror>>
    /\ UNCHANGED notTriplet

\* the while condition is false: leave the loop
ExitSearch ==
    /\ tpc = "search"
    /\ ~SearchAgain(positive_index, index)
    /\ tpc' = "negative"
    /\ UNCHANGED <<ann_main, labels_set, label_to_indices, index, label,
                   positive_index, negative_label, negative_index, terror,
                   search_turn>>
    /\ UNCHANGED notTriplet

\* (mutant: the label taken out of self.labels_set in place)
LabelsSetDiscarding(ls, l) == ls \ {l}

\* line 35: self.labels_set - set([label]) builds a new set and leaves
\* self.labels_set as it is
LabelsSetAfter(ls, l) == ls

\* self.dataset[i] called directly, between or during triplet requests
DatasetGetItem(i) ==
    /\ ds_call' = [op |-> "getitem", arg |-> i]
    /\ LET g == getitem(ds, i)
       IN  /\ ds_out' = [dat |-> g.dat, ann |-> g.ann]
           /\ ds_error' = g.error
    /\ UNCHANGED ds
    /\ UNCHANGED notDataset

\* lines 35-39: draw the negative label and index, fetch both samples, return
ChooseNegative(nl, ni) ==
    /\ tpc = "negative"
    /\ nl \in NegativeLabels(labels_set, label)
    /\ ni \in label_to_indices[nl]
    /\ negative_label' = nl
    /\ negative_index' = ni
    /\ labels_set' = LabelsSetAfter(labels_set, label)
    /\ tpc' = "returned"
    /\ UNCHANGED <<ann_main, label_to_indices, index, label,
                   positive_index, terror, search_turn>>
    /\ UNCHANGED notTriplet

\* line 35 on an empty list: np.random.choice raises ValueError
NoNegativeLabel ==
    /\ tpc = "negative"
    /\ NegativeLabels(labels_set, label) = {}
    /\ tpc' = "raised"
    /\ terror' = "ValueError"
    /\ labels_set' = LabelsSetAfter(labels_set, label)
    /\ UNCHANGED <<ann_main, label_to_indices, index, label,
                   positive_index, negative_label, negative_index, search_turn>>
    /\ UNCHANGED notTriplet

TripletNext ==
    \/ TripletConstruct
    \/ \E i \in (0 - (MaxSamples + 1)) .. MaxSamples : GetItemStart(i)
    \/ \E p \in 0 .. (MaxSamples - 1) : DrawPositive(p)
    \/ ExitSearch
    \/ \E nl \in LabelValues : \E ni \in 0 .. (MaxSamples - 1) : ChooseNegative(nl, ni)
    \/ NoNegativeLabel
    \/ \E i \in {0 - 1, 0, MaxSamples} : tpc # "new" /\ DatasetGetItem(i)

TripletSpec == TripletInit /\ [][TripletNext]_vars

\* np.random.choice is uniform: every value it can draw is eventually drawn,
\* and a running request keeps executing.
TripletFairSpec ==
    /\ TripletSpec
    /\ WF_vars(TripletConstruct)
    /\ WF_vars(ExitSearch)
    /\ WF_vars(NoNegativeLabel)
    /\ WF_vars(\E nl \in LabelValues : \E ni \in 0 .. (MaxSamples - 1) : ChooseNegative(nl, ni))
    /\ \A p \in 0 .. (MaxSamples - 1) : WF_vars(DrawPositive(p))

Spec == TripletSpec

(***************************************************************************)
(* DataImporter.cleanup_data                                               *)
(* Thresholds are fractions [num, den].                                    *)
(***************************************************************************)
\* feature_variances > self.variance_threshold  (the variance of fewer than
\* two values is NaN, and NaN > x is False)
VarAbove(row, thr) ==
    /\ CountOf(row) >= 2
    /\ Spread(row) * thr.den > 4 * thr.num * CountOf(row) * (CountOf(row) - 1)

\* na_percentages < self.na_threshold  (the mean of no values is NaN)
NaBelow(row, thr) ==
    /\ Len(row) > 0
    /\ (Len(row) - CountOf(row)) * thr.den < thr.num * Len(row)

\* (mutant: the comparison of line 180 turned around)
VarFilterInverted(df, thr) ==
    RowsAt(df, SortedSeq({ r \in 1 .. Len(df.index) : ~VarAbove(df.cells[r], thr) }))

\* Step 1, line 180
VarFilter(df, thr) ==
    RowsAt(df, SortedSeq({ r \in 1 .. Len(df.index) : VarAbove(df.cells[r], thr) }))

\* Step 2, line 186
NaFilter(df, thr) ==
    RowsAt(df, SortedSeq({ r \in 1 .. Len(df.index) : NaBelow(df.cells[r], thr) }))

\* df.isna().any(axis=1)
MissingRows(df) == { r \in 1 .. Len(df.index) : CountOf(df.cells[r]) < Len(df.columns) }

\* Step 3, lines 191-202.  medians[i] is a number when exactly one row with
\* missing cells is labelled i, and df.loc[i].fillna(medians[i]) then fills
\* the rows labelled i; when several such rows share the label i, medians[i]
\* is a Series keyed by feature id, which fillna matches against the sample
\* columns, and nothing is filled.
Imputed(df) ==
    LET miss == MissingRows(df)
        alone(r) == \A q \in miss : df.index[q] = df.index[r] => q = r
    IN  [df EXCEPT !.cells =
            [r \in 1 .. Len(df.index) |->
                IF r \in miss /\ alone(r)
                THEN [c \in 1 .. Len(df.columns) |->
                        IF df.cells[r][c] = NaN THEN MedianOf(df.cells[r])
                        ELSE df.cells[r][c]]
                ELSE df.cells[r]]]

\* lines 178-202: one layer after the first pass
CleanedLayer(df, cfg) ==
    Imputed(NaFilter(VarFilter(df, cfg.variance_threshold), cfg.na_threshold))

\* lines 211-213: std of fewer than two values is NaN
Informative(col) == CountOf(col) >= 2 /\ Spread(col) # 0

\* line 213: the mask of a cleaned layer, keyed by sample id
SampleMask(df) ==
    [s \in Range(df.columns) |->
        \E c \in 1 .. Len(df.columns) :
            df.columns[c] = s /\ Informative(ColumnOf(df, c))]

\* line 219: pd.DataFrame(sample_masks).all() aligns the masks on the union
\* of the sample ids; a sample that a layer lacks is NaN there and is skipped
CommonMask(cleaned) ==
    [s \in UNION { Range(cleaned[x].columns) : x \in DOMAIN cleaned } |->
        \A x \in DOMAIN cleaned :
            s \in Range(cleaned[x].columns) => SampleMask(cleaned[x])[s]]

\* line 224: .loc[:, common_mask] aligns the mask on the layer's own columns
ApplyMask(df, mask) ==
    ColsAt(df, SortedSeq({ c \in 1 .. Len(df.columns) : mask[df.columns[c]] }))

cleanup_data(df_dict, cfg) ==
    LET cleaned == [x \in DOMAIN df_dict |-> CleanedLayer(df_dict[x], cfg)]
    IN  [x \in DOMAIN df_dict |-> ApplyMask(cleaned[x], CommonMask(cleaned))]

\* the thresholds: the defaults of __init__ and other values
VarianceThresholds == { [num |-> 1, den |-> 100000], [num |-> 2, den |-> 5] }

NaThresholds == { [num |-> 1, den |-> 10], [num |-> 1, den |-> 2], [num |-> 0, den |-> 1] }

\* input layers: "expr" with two features over samples 1, 2, 3 and cells in
\* {0, 1, NaN}; "mut", a 0/1 matrix over some of the samples in some order
ExprCells == { Whole(0), Whole(1), NaN }

MutCells == { Whole(0), Whole(1) }

MutColumns == { <<1, 2, 3>>, <<3, 2, 1>>, <<1, 2>>, <<2, 3>> }

ExprIndexes == { <<1, 2>>, <<1, 1>> }

ExprTables ==
    { [index |-> ix, columns |-> <<1, 2, 3>>, cells |-> <<r1, r2>>] :
        ix \in ExprIndexes,
        r1 \in [1 .. 3 -> ExprCells], r2 \in [1 .. 3 -> ExprCells] }

MutTables ==
    UNION { { [index |-> <<1, 2>>, columns |-> cols, cells |-> <<r1, r2>>] :
                r1 \in [1 .. Len(cols) -> MutCells],
                r2 \in [1 .. Len(cols) -> MutCells] } : cols \in MutColumns }

\* "expr" with three features, two of which may carry the same id and
\* missing cells, the third complete
ThreeFeatureTables ==
    { [index |-> ix, columns |-> <<1, 2, 3>>, cells |-> <<r1, r2, r3>>] :
        ix \in { <<1, 1, 2>>, <<1, 2, 3>> },
        r1 \in [1 .. 3 -> ExprCells], r2 \in [1 .. 3 -> ExprCells],
        r3 \in { <<Whole(0), Whole(1), Whole(0)>>, <<Whole(1), Whole(1), Whole(0)>> } }

HasNaN(t) == \E r \in 1 .. Len(t.index) : CountOf(t.cells[r]) < Len(t.columns)

\* a cohort of one layer, or of two layers
CleanupInit ==
    /\ cl_cfg \in [variance_threshold : VarianceThresholds, na_threshold : NaThresholds]
    /\ \/ \E e \in ExprTables \cup ThreeFeatureTables : cl_dat = [x \in {"expr"} |-> e]
       \/ \E e \in { t \in ExprTables : ~HasNaN(t) /\ t.index = <<1, 2>> } :
          \E m \in MutTables :
             cl_dat = [x \in {"expr", "mut"} |-> IF x = "expr" THEN e ELSE m]
    /\ cl_prev = cl_dat
    /\ cl_runs = 0
    /\ IdleTriplet /\ IdleHarmonize /\ IdleLabels /\ IdleImport /\ IdleFilter /\ IdleDataset /\ IdleNormalize

\* one call of cleanup_data, on the result of the previous one
CleanupCall ==
    /\ cl_runs < MaxCleanRuns
    /\ cl_prev' = cl_dat
    /\ cl_dat' = cleanup_data(cl_dat, cl_cfg)
    /\ cl_runs' = cl_runs + 1
    /\ UNCHANGED cl_cfg
    /\ UNCHANGED notCleanup

CleanupNext == CleanupCall

CleanupSpec == CleanupInit /\ [][CleanupNext]_vars

(***************************************************************************)
(* DataImporter.harmonize                                                  *)
(***************************************************************************)
\* the elements of a sequence, each once, in order of first appearance
\* (Index.unique)
RECURSIVE UniqueSeq(_)
UniqueSeq(s) ==
    IF s = <<>> THEN <<>>
    ELSE LET front == UniqueSeq(SubSeq(s, 1, Len(s) - 1))
         IN  IF s[Len(s)] \in Range(front) THEN front
             ELSE Append(front, s[Len(s)])

\* the sub-sequence of the elements that satisfy a test
RECURSIVE FilterSeq(_, _)
FilterSeq(s, S) ==
    IF s = <<>> THEN <<>>
    ELSE IF Head(s) \in S THEN <<Head(s)>> \o FilterSeq(Tail(s), S)
         ELSE FilterSeq(Tail(s), S)

\* Index.intersection(other), sort=False: the unique labels of self that
\* occur in other, in the order of self
IndexIntersection(a, b) == FilterSeq(UniqueSeq(a), Range(b))

\* the positions of the rows labelled k, ascending
RowsLabelled(ix, k) == SortedSeq({ r \in 1 .. Len(ix) : ix[r] = k })

\* df.loc[keys] with a list of labels that all occur: for each key in turn,
\* every row that carries it
RECURSIVE LocPositions(_, _)
LocPositions(ix, keys) ==
    IF keys = <<>> THEN <<>>
    ELSE RowsLabelled(ix, Head(keys)) \o LocPositions(ix, Tail(keys))

LocRows(t, keys) == RowsAt(t, LocPositions(t.index, keys))

\* lines 387-391
harmonize(types, dat1, dat2) ==
    LET common_features ==
            [x \in Range(types) |-> IndexIntersection(dat1[x].index, dat2[x].index)]
    IN  [dat1 |-> [x \in DOMAIN dat1 |-> LocRows(dat1[x], common_features[x])],
         dat2 |-> [x \in DOMAIN dat2 |-> LocRows(dat2[x], common_features[x])]]

\* a layer with the given feature ids over one sample; the cell of a row
\* tells the row's position in the file and the cohort (tag)
TaggedLayer(ix, tag) ==
    [index |-> ix, columns |-> <<1>>,
     cells |-> [r \in 1 .. Len(ix) |-> <<Whole(tag + r)>>]]

\* feature-id sequences of a layer file: ids may repeat (index_col=0)
RECURSIVE SeqsUpTo(_, _)
SeqsUpTo(S, n) ==
    IF n = 0 THEN { <<>> }
    ELSE LET shorter == SeqsUpTo(S, n - 1)
         IN  shorter \cup { Append(q, e) : q \in shorter, e \in S }

FeatureIds == 1 .. 3

HarmonizeInit ==
    /\ hz_types = <<"expr", "mut">>
    /\ \E e1 \in SeqsUpTo(FeatureIds, MaxFeatures), e2 \in SeqsUpTo(FeatureIds, MaxFeatures),
          m1 \in { <<1, 2>>, <<2, 1>>, <<2, 3, 2>> }, m2 \in { <<1, 2>>, <<3, 2>> } :
          hz_in = [dat1 |-> [x \in {"expr", "mut"} |->
                               TaggedLayer(IF x = "expr" THEN e1 ELSE m1, 0)],
                   dat2 |-> [x \in {"expr", "mut"} |->
                               TaggedLayer(IF x = "expr" THEN e2 ELSE m2, 10)]]
    /\ hz_out = <<>>
    /\ hz_pc = "called"
    /\ IdleTriplet /\ IdleCleanup /\ IdleLabels /\ IdleImport /\ IdleFilter /\ IdleDataset /\ IdleNormalize

HarmonizeCall ==
    /\ hz_pc = "called"
    /\ hz_out' = harmonize(hz_types, hz_in.dat1, hz_in.dat2)
    /\ hz_pc' = "returned"
    /\ UNCHANGED <<hz_types, hz_in>>
    /\ UNCHANGED notHarmonize

HarmonizeNext == HarmonizeCall

HarmonizeSpec == HarmonizeInit /\ [][HarmonizeNext]_vars

(***************************************************************************)
(* DataImporter.get_labels                                                 *)
(***************************************************************************)
\* the orders in which list(set) can enumerate a set
ListsOf(S) == { q \in [1 .. Cardinality(S) -> S] : Range(q) = S }

\* line 310: the samples common to the columns of all layers
CommonLayerSamples(dat) ==
    { s \in UNION { Range(dat[x].columns) : x \in DOMAIN dat } :
        \A x \in DOMAIN dat : s \in Range(dat[x].columns) }

\* (mutant: line 311 left out)
WorkingSamplesNoAnn(dat, ann) == CommonLayerSamples(dat)

\* line 311
WorkingSamples(dat, ann) == Range(ann.index) \cap CommonLayerSamples(dat)

\* dat[x][samples]: the columns labelled by the list, in its order (the
\* columns of a layer are unique: read_csv renames repeated ones)
ColsLabelled(t, keys) == ColsAt(t, LocPositions(t.columns, keys))

\* lines 312-314 for one enumeration of the sample set
GetLabelsWith(dat, ann, samples) ==
    [dat |-> [x \in DOMAIN dat |-> ColsLabelled(dat[x], samples)],
     ann |-> LocRows(ann, samples),
     samples |-> samples]

\* every result get_labels can return
get_labels(dat, ann) ==
    { GetLabelsWith(dat, ann, samples) : samples \in ListsOf(WorkingSamples(dat, ann)) }

\* sequences of distinct elements of S, of length 1 .. Cardinality(S)
DistinctSeqs(S) == UNION { ListsOf(T) : T \in (SUBSET S) \ { {} } }

\* a layer of one feature over the given samples; a cell tells its sample
SampleLayer(cols, tag) ==
    [index |-> <<1>>, columns |-> cols,
     cells |-> << [c \in 1 .. Len(cols) |-> Whole(tag + cols[c])] >>]

\* an annotation table of one variable; a cell tells the row's position in
\* the file.  Sample ids may repeat in clin.csv, and name unmeasured samples.
AnnTable(ix) ==
    [index |-> ix, columns |-> <<"response">>,
     cells |-> [r \in 1 .. Len(ix) |-> <<r>>]]

LabelsInit ==
    /\ \E c1 \in DistinctSeqs(1 .. 3), c2 \in DistinctSeqs(1 .. 3),
          ix \in SeqsUpTo(1 .. 4, MaxAnnRows) :
          gl_in = [dat |-> [x \in {"expr", "mut"} |->
                              IF x = "expr" THEN SampleLayer(c1, 0)
                              ELSE SampleLayer(c2, 10)],
                   ann |-> AnnTable(ix)]
    /\ gl_out = <<>>
    /\ gl_pc = "called"
    /\ IdleTriplet /\ IdleCleanup /\ IdleHarmonize /\ IdleImport /\ IdleFilter /\ IdleDataset /\ IdleNormalize

GetLabelsCall ==
    /\ gl_pc = "called"
    /\ gl_out' \in get_labels(gl_in.dat, gl_in.ann)
    /\ gl_pc' = "returned"
    /\ UNCHANGED gl_in
    /\ UNCHANGED notLabels

LabelsNext == GetLabelsCall

LabelsSpec == LabelsInit /\ [][LabelsNext]_vars

(***************************************************************************)
(* DataImporter: filter, transform_data, normalize_data, encode_labels,    *)
(* get_torch_dataset                                                       *)
(***************************************************************************)
Max(a, b) == IF a >= b THEN a ELSE b

Min(a, b) == IF a <= b THEN a ELSE b

\* (mutant: the smaller of the two counts)
FeatureCountMin(n, min_features, top_percentile) ==
    Min((n * top_percentile) \div 100, min_features)

\* line 380: max(int(n * top_percentile / 100), min_features)
FeatureCount(n, min_features, top_percentile) ==
    Max((n * top_percentile) \div 100, min_features)

\* filter_by_laplacian(dat[x].T, x, topN).T: the ranker keeps topN of the
\* features (all of them when there are fewer), in the order it ranks them.
\* Its score is not modelled: every choice and order is a possible result.
filter_by_laplacian(t, topN) ==
    { RowsAt(t, pos) :
        pos \in UNION { ListsOf(P) :
                          P \in { Q \in SUBSET (1 .. Len(t.index)) :
                                    Cardinality(Q) = Min(topN, Len(t.index)) } } }

\* every assignment of one element of choices[x] to each x
Products(choices) ==
    { f \in [DOMAIN choices -> UNION { choices[x] : x \in DOMAIN choices }] :
        \A x \in DOMAIN choices : f[x] \in choices[x] }

\* lines 379-382: every result filter can return
filter(dat, min_features, top_percentile) ==
    Products([x \in DOMAIN dat |->
                filter_by_laplacian(dat[x],
                    FeatureCount(Len(dat[x].index), min_features, top_percentile))])

\* np.log1p of a cell (halves in, thousandths out)
Log1pTable == <<0, 405, 693, 916, 1099>>

Log1p(v) == IF v = NaN THEN NaN ELSE Log1pTable[v + 1]

\* lines 375-377
transform_data(data) ==
    [x \in DOMAIN data |->
       [data[x] EXCEPT !.cells =
           [r \in 1 .. Len(data[x].index) |->
              [c \in 1 .. Len(data[x].columns) |-> Log1p(data[x].cells[r][c])]]]]

\* <kind>Scaler().fit(data[x].T): per feature what determines the fitted
\* parameters: the count, sum and sum of squares of its cells (mean_, var_,
\* scale_), or its least and greatest cell (data_min_, data_max_)
FitScaler(t, scaler_type) ==
    [kind |-> scaler_type,
     features |-> t.index,
     stats |-> [r \in 1 .. Len(t.index) |->
                  IF scaler_type = "standard"
                  THEN [n |-> CountOf(t.cells[r]), s1 |-> Sum1(t.cells[r]),
                        s2 |-> Sum2(t.cells[r])]
                  ELSE [lo |-> CHOOSE v \in Range(t.cells[r]) \ {NaN} :
                                  \A w \in Range(t.cells[r]) \ {NaN} : v <= w,
                        hi |-> CHOOSE v \in Range(t.cells[r]) \ {NaN} :
                                  \A w \in Range(t.cells[r]) \ {NaN} : v >= w]]]

\* sklearn's check_array refuses a matrix with no sample or no feature
Fittable(t) == Len(t.columns) >= 1 /\ Len(t.index) >= 1

\* transform also refuses another number of features than it was fitted on
Transformable(t, scaler) == Fittable(t) /\ Len(t.index) = Len(scaler.features)

\* scaler.transform: the cell x becomes (x - mean) / scale, kept as the pair
\* of x and the fitted statistics of its feature
ScaleLayer(t, scaler) ==
    [t EXCEPT !.cells = [r \in 1 .. Len(t.index) |->
                           [c \in 1 .. Len(t.columns) |->
                              [x |-> t.cells[r][c], by |-> scaler.stats[r]]]]]

\* self.scalers = None (line 151)
NoScalers == [none |-> TRUE]

ScalerTypes == {"standard", "min_max"}

\* (mutant: the fit flag ignored, every call fits)
ShouldFitAlways(fit) == TRUE

\* line 361
ShouldFit(fit) == fit

\* lines 356-373: [scalers, fitted, out, error]; fitted tells whether
\* self.scalers was assigned
normalize_data(data, scaler_type, fit, self_scalers) ==
    LET failed(stored, assigned, kind) ==
            [scalers |-> stored, fitted |-> assigned, out |-> <<>>, error |-> kind]
        apply(stored, assigned) ==
            IF stored = NoScalers THEN failed(stored, assigned, "TypeError")
            ELSE IF \E x \in DOMAIN data : x \notin DOMAIN stored
            THEN failed(stored, assigned, "KeyError")
            ELSE IF \E x \in DOMAIN data : ~Transformable(data[x], stored[x])
            THEN failed(stored, assigned, "ValueError")
            ELSE [scalers |-> stored, fitted |-> assigned,
                  out |-> [x \in DOMAIN data |-> ScaleLayer(data[x], stored[x])],
                  error |-> NoError]
    IN  IF ~ShouldFit(fit) THEN apply(self_scalers, FALSE)
        ELSE IF scaler_type \notin ScalerTypes THEN failed(self_scalers, FALSE, "ValueError")
        ELSE IF \E x \in DOMAIN data : ~Fittable(data[x])
        THEN failed(self_scalers, FALSE, "ValueError")
        ELSE apply([x \in DOMAIN data |-> FitScaler(data[x], scaler_type)], TRUE)

\* the name of the empty Series DataFrame.apply probes the function with
NoName == "<None>"

\* an encoder that was created and never fitted has no categories_
Unfitted == <<>>

IsCategorical(df, c) == df.kinds[c] = "object"

\* df.select_dtypes(include=['object', 'category']).columns, as positions
CategoricalColumns(df) ==
    SortedSeq({ c \in 1 .. Len(df.columns) : IsCategorical(df, c) })

\* df.select_dtypes(exclude=['object', 'category']).columns, as positions
NumericalColumns(df) ==
    SortedSeq({ c \in 1 .. Len(df.columns) : ~IsCategorical(df, c) })

\* OrdinalEncoder.fit: categories_[0], the sorted distinct values
FitCategories(col) == SortedSeq(Range(col))

\* the code of a value: its place in categories_, unknown_value for others
UnknownCode == -1

CodeOf(cats, v) ==
    IF \E k \in 1 .. Len(cats) : cats[k] = v
    THEN (CHOOSE k \in 1 .. Len(cats) : cats[k] = v) - 1
    ELSE UnknownCode

\* (mutant: the stored encoder ignored, every call fits anew)
HasEncoderNever(name, self_encoders) == FALSE

\* line 322
HasEncoder(name, self_encoders) == name \in DOMAIN self_encoders

\* the self_encoders after encode_column ran on the listed categorical columns
RECURSIVE EncodersAfter(_, _, _)
EncodersAfter(df, cols, self_encoders) ==
    IF cols = <<>> THEN self_encoders
    ELSE LET c == Head(cols)
             name == df.columns[c]
             next == IF HasEncoder(name, self_encoders) THEN self_encoders
                     ELSE [n \in DOMAIN self_encoders \cup {name} |->
                             IF n = name THEN FitCategories(ColumnOf(df, c))
                             ELSE self_encoders[n]]
         IN  EncodersAfter(df, Tail(cols), next)

\* lines 316-344: [encoders, df_encoded, variable_types, label_mappings].
\* DataFrame.apply on a selection with no column or no row calls
\* encode_column once with an empty, unnamed Series and swallows its error:
\* when no encoder is stored under None yet, line 323 stores one before
\* fit_transform fails, and the selection is returned as it is.
encode_labels(df, self_encoders) ==
    LET cat == CategoricalColumns(df)
        num == NumericalColumns(df)
        empty == cat = <<>> \/ df.index = <<>>
        after == IF empty
                 THEN IF HasEncoder(NoName, self_encoders) THEN self_encoders
                      ELSE [n \in DOMAIN self_encoders \cup {NoName} |->
                              IF n = NoName THEN Unfitted ELSE self_encoders[n]]
                 ELSE EncodersAfter(df, cat, self_encoders)
        order == num \o cat
    IN  [encoders |-> after,
         df_encoded |->
            [index |-> df.index,
             columns |-> TakeSeq(df.columns, order),
             kinds |-> [k \in 1 .. Len(order) |-> "float"],
             cells |-> [r \in 1 .. Len(df.index) |->
                          [k \in 1 .. Len(order) |->
                             IF IsCategorical(df, order[k])
                             THEN CodeOf(after[df.columns[order[k]]], df.cells[r][order[k]])
                             ELSE df.cells[r][order[k]]]]],
         variable_types |->
            [n \in Range(df.columns) |->
               IF \E c \in Range(cat) : df.columns[c] = n
               THEN "categorical" ELSE "numerical"],
         label_mappings |->
            IF empty THEN <<>>
            ELSE [n \in { df.columns[c] : c \in Range(cat) } |->
                    [code \in 0 .. (Len(after[n]) - 1) |-> after[n][code + 1]]]]

\* np.array(dat[x].T): sample-major
Transposed(t) ==
    [r \in 1 .. Len(t.columns) |-> [c \in 1 .. Len(t.index) |-> t.cells[c][r]]]

\* lines 346-354: [encoders, dataset]
get_torch_dataset(dat, ann, samples, self_encoders) ==
    LET enc == encode_labels(ann, self_encoders)
    IN  [encoders |-> enc.encoders,
         dataset |->
            [dat |-> [x \in DOMAIN dat |-> Transposed(dat[x])],
             ann |-> [n \in Range(enc.df_encoded.columns) |->
                        ColumnOf(enc.df_encoded,
                                 CHOOSE c \in 1 .. Len(enc.df_encoded.columns) :
                                    enc.df_encoded.columns[c] = n)],
             variable_types |-> enc.variable_types,
             features |-> [x \in DOMAIN dat |-> dat[x].index],
             samples |-> samples,
             label_mappings |-> enc.label_mappings]]

(***************************************************************************)
(* DataImporter.import_data                                                *)
(* File names are written without the .csv ending.                         *)
(***************************************************************************)
MaxReapply == 2

\* the defaults of __init__ (line 138)
DefaultThresholds ==
    [variance_threshold |-> [num |-> 1, den |-> 100000],
     na_threshold |-> [num |-> 1, den |-> 10]]

\* lines 158 and 284
required_files(cfg) == {"clin"} \cup Range(cfg.data_types)

Raised(type, stage) ==
    [type |-> type, stage |-> stage, folder |-> "", missing |-> {}]

NotRaised == Raised(NoError, "")

\* (mutant: the test folder is not looked at)
ValidateTrainingOnly(cfg, training_files, testing_files) ==
    IF ~(required_files(cfg) \subseteq training_files)
    THEN [Raised("ValueError", "validate") EXCEPT
            !.folder = "training", !.missing = required_files(cfg) \ training_files]
    ELSE NotRaised

\* lines 279-292: the error validate_data_folders raises, if any
validate_data_folders(cfg, training_files, testing_files) ==
    IF ~(required_files(cfg) \subseteq training_files)
    THEN [Raised("ValueError", "validate") EXCEPT
            !.folder = "training", !.missing = required_files(cfg) \ training_files]
    ELSE IF ~(required_files(cfg) \subseteq testing_files)
    THEN [Raised("ValueError", "validate") EXCEPT
            !.folder = "testing", !.missing = required_files(cfg) \ testing_files]
    ELSE NotRaised

\* Python's truth value of min_features and top_percentile
Truthy(v) == v # None /\ v # 0

\* (mutant: feature selection on either cohort)
IsTrainSplitAlways(split) == TRUE

\* line 301
IsTrainSplit(split) == split = "train"

\* lines 295-306: every result process_data can return,
\* [dat, ann, samples, features, ranked, error]; ranked tells whether the
\* ranker was called; max() and * raise TypeError on None before it is
process_data(data, split, cfg) ==
    LET dat == cleanup_data([x \in Range(cfg.data_types) |-> data[x]],
                            DefaultThresholds)
        aligned == get_labels(dat, data["clin"])
        result(d, g, ranked, error) ==
            [dat |-> d, ann |-> g.ann, samples |-> g.samples,
             features |-> [x \in DOMAIN d |-> d[x].index],
             ranked |-> ranked, error |-> error]
        selected(g) ==
            IF IsTrainSplit(split) /\ (Truthy(cfg.min_features) \/ Truthy(cfg.top_percentile))
            THEN IF cfg.min_features = None \/ cfg.top_percentile = None
                 THEN { result(g.dat, g, FALSE, "TypeError") }
                 ELSE { result(d, g, TRUE, NoError) :
                        d \in filter(g.dat, cfg.min_features, cfg.top_percentile) }
            ELSE { result(g.dat, g, FALSE, NoError) }
    IN  UNION { selected(g) : g \in aligned }

\* torch.cat(..., dim = 1) and chain(*...): the layers side by side, in the
\* order of the dataset's keys, which is the order of data_types
RECURSIVE CatRow(_, _, _)
CatRow(dat, order, r) ==
    IF order = <<>> THEN <<>>
    ELSE dat[Head(order)][r] \o CatRow(dat, Tail(order), r)

\* (mutant: the feature lists joined in the opposite layer order)
RECURSIVE ChainReversed(_, _)
ChainReversed(features, order) ==
    IF order = <<>> THEN <<>>
    ELSE ChainReversed(features, Tail(order)) \o features[Head(order)]

RECURSIVE Chain(_, _)
Chain(features, order) ==
    IF order = <<>> THEN <<>>
    ELSE features[Head(order)] \o Chain(features, Tail(order))

\* lines 263-268 for one dataset
Concatenated(dataset, order) ==
    [dataset EXCEPT
        !.dat = [x \in {"all"} |->
                   [r \in 1 .. Len(dataset.samples) |-> CatRow(dataset.dat, order, r)]],
        !.features = [x \in {"all"} |-> Chain(dataset.features, order)]]

\* ---- the cohorts on disk -------------------------------------------------
\* a layer file: the cell of feature f and sample s is base or base + 1 by
\* the parity of f + s + tag
LayerFile(ix, cols, tag, base) ==
    [index |-> ix, columns |-> cols,
     cells |-> [r \in 1 .. Len(ix) |->
                  [c \in 1 .. Len(cols) |->
                     Whole(base + ((ix[r] + cols[c] + tag) % 2))]]]

\* clin.csv: one row per listed sample id; "response" and "batch" hold
\* category names (numbered 10, 11, 12), "age" a number, or a text when
\* its dtype is object
ClinFile(ix, names, kinds, ncat) ==
    [index |-> ix, columns |-> names, kinds |-> kinds,
     cells |-> [r \in 1 .. Len(ix) |->
                  [c \in 1 .. Len(names) |->
                     IF names[c] = "response" THEN 10 + (ix[r] % ncat)
                     ELSE IF names[c] = "batch" THEN 20 + (ix[r] % 2)
                     ELSE IF kinds[c] = "object" THEN 30 + ix[r]
                     ELSE Whole(ix[r])]]]

\* sample ids may repeat in clin.csv, and may name unmeasured samples
TrainClins ==
    { ClinFile(ix, <<"response", "age">>, <<"object", "float">>, 2) :
        ix \in { <<1, 2>>, <<2, 1, 2>>, <<4>> } }
    \cup { ClinFile(<<1, 2>>, <<"age">>, <<"float">>, 2) }

\* the test table can have a category the training table lacks, no
\* categorical column, a categorical column of its own, or "age" as text
TestClins ==
    { ClinFile(ix, <<"response", "age">>, <<"object", "float">>, 3) :
        ix \in { <<1, 2>>, <<2, 2, 1>>, <<4>> } }
    \cup { ClinFile(<<1, 2>>, sch[1], sch[2], 3) :
             sch \in { << <<"age">>, <<"float">> >>,
                       << <<"batch", "response">>, <<"object", "object">> >>,
                       << <<"response", "age">>, <<"object", "object">> >> } }

LayerFiles(x, split) ==
    IF x = "expr"
    THEN IF split = "train"
         THEN { LayerFile(ix, <<1, 2>>, 0, 0) : ix \in { <<1, 2>>, <<1, 2, 3>> } }
         ELSE { LayerFile(ix, <<1, 2>>, 0, 1) : ix \in { <<2, 1>>, <<2, 3>> } }
    ELSE IF split = "train"
         THEN { LayerFile(<<1, 2>>, cols, 1, 0) : cols \in { <<1, 2>>, <<3, 2, 1>> } }
         ELSE { LayerFile(<<1, 2>>, <<2, 1>>, 1, 1) }

\* lines 156-165: what read_data can find in the required files of a folder
read_data(cfg, split) ==
    Products([x \in required_files(cfg) |->
                IF x = "clin"
                THEN IF split = "train" THEN TrainClins ELSE TestClins
                ELSE LayerFiles(x, split)])

FileNames == {"clin", "expr", "mut"}

Configs ==
    [data_types : { <<"expr">>, <<"expr", "mut">> },
     log_transform : BOOLEAN,
     concatenate : BOOLEAN,
     min_features : {None, 1, 2},
     top_percentile : {None, 50}]

ImportInit ==
    /\ icfg \in { c \in Configs :
                    \/ c.min_features = None /\ c.top_percentile = None
                    \/ c.min_features = 1 /\ c.top_percentile = 50
                    \/ c.min_features = 2 /\ c.top_percentile = None }
    /\ train_files \in SUBSET FileNames
    /\ test_files \in SUBSET FileNames
    /\ ipc = "validate"
    /\ ierror = NotRaised
    /\ training_data = <<>>
    /\ testing_data = <<>>
    /\ train_dat = <<>>
    /\ train_ann = <<>>
    /\ train_samples = <<>>
    /\ test_dat = <<>>
    /\ test_ann = <<>>
    /\ test_samples = <<>>
    /\ train_scaled = <<>>
    /\ test_scaled = <<>>
    /\ scalers = NoScalers
    /\ encoders = <<>>
    /\ training_dataset = <<>>
    /\ testing_dataset = <<>>
    /\ scaler_fits = <<>>
    /\ reapplied = 0
    /\ train_features = <<>>
    /\ test_features = <<>>
    /\ ranker_calls = <<>>
    /\ IdleTriplet /\ IdleCleanup /\ IdleHarmonize /\ IdleLabels
    /\ IdleFilter /\ IdleDataset /\ IdleNormalize

\* line 235
Validate ==
    /\ ipc = "validate"
    /\ LET e == validate_data_folders(icfg, train_files, test_files)
       IN  /\ ierror' = e
           /\ ipc' = IF e = NotRaised THEN "read_train" ELSE "raised"
    /\ UNCHANGED <<icfg, train_files, test_files, training_data, testing_data,
                   train_dat, train_ann, train_samples, test_dat, test_ann,
                   test_samples, train_scaled, test_scaled, scalers, encoders,
                   training_dataset, testing_dataset, scaler_fits, reapplied>>
    /\ UNCHANGED <<train_features, test_features, ranker_calls>>
    /\ UNCHANGED notImport

\* line 237
ReadTrain ==
    /\ ipc = "read_train"
    /\ training_data' \in read_data(icfg, "train")
    /\ ipc' = "read_test"
    /\ UNCHANGED <<icfg, train_files, test_files, ierror, testing_data,
                   train_dat, train_ann, train_samples, test_dat, test_ann,
                   test_samples, train_scaled, test_scaled, scalers, encoders,
                   training_dataset, testing_dataset, scaler_fits, reapplied>>
    /\ UNCHANGED <<train_features, test_features, ranker_calls>>
    /\ UNCHANGED notImport

\* line 238
ReadTest ==
    /\ ipc = "read_test"
    /\ testing_data' \in read_data(icfg, "test")
    /\ ipc' = "process_train"
    /\ UNCHANGED <<icfg, train_files, test_files, ierror, training_data,
                   train_dat, train_ann, train_samples, test_dat, test_ann,
                   test_samples, train_scaled, test_scaled, scalers, encoders,
                   training_dataset, testing_dataset, scaler_fits, reapplied>>
    /\ UNCHANGED <<train_features, test_features, ranker_calls>>
    /\ UNCHANGED notImport

\* line 241
ProcessTrain ==
    /\ ipc = "process_train"
    /\ \E g \in process_data(training_data, "train", icfg) :
          /\ train_dat' = g.dat
          /\ train_ann' = g.ann
          /\ train_samples' = g.samples
          /\ train_features' = IF g.error = NoError THEN g.features ELSE train_features
          /\ ranker_calls' = IF g.ranked THEN Append(ranker_calls, "train")
                              ELSE ranker_calls
          /\ ierror' = IF g.error = NoError THEN ierror
                       ELSE Raised(g.error, "process_train")
          /\ ipc' = IF g.error = NoError THEN "process_test" ELSE "raised"
    /\ UNCHANGED <<icfg, train_files, test_files, training_data, testing_data,
                   test_dat, test_ann, test_samples, train_scaled, test_scaled,
                   scalers, encoders, training_dataset, testing_dataset,
                   scaler_fits, reapplied>>
    /\ UNCHANGED test_features
    /\ UNCHANGED notImport

\* line 242
ProcessTest ==
    /\ ipc = "process_test"
    /\ \E g \in process_data(testing_data, "test", icfg) :
          /\ test_dat' = g.dat
          /\ test_ann' = g.ann
          /\ test_samples' = g.samples
          /\ test_features' = IF g.error = NoError THEN g.features ELSE test_features
          /\ ranker_calls' = IF g.ranked THEN Append(ranker_calls, "test")
                              ELSE ranker_calls
          /\ ierror' = IF g.error = NoError THEN ierror
                       ELSE Raised(g.error, "process_test")
          /\ ipc' = IF g.error = NoError THEN "harmonize" ELSE "raised"
    /\ UNCHANGED <<icfg, train_files, test_files, training_data, testing_data,
                   train_dat, train_ann, train_samples, train_scaled, test_scaled,
                   scalers, encoders, training_dataset, testing_dataset,
                   scaler_fits, reapplied>>
    /\ UNCHANGED train_features
    /\ UNCHANGED notImport

\* (mutant: the log1p transform is never applied)
LogTransformNever(cfg) == FALSE

\* line 247: if self.log_transform
LogTransformEnabled(cfg) == cfg.log_transform

\* line 245
Harmonize ==
    /\ ipc = "harmonize"
    /\ LET h == harmonize(icfg.data_types, train_dat, test_dat)
       IN  /\ train_dat' = h.dat1
           /\ test_dat' = h.dat2
    /\ ipc' = IF LogTransformEnabled(icfg) THEN "transform" ELSE "normalize_train"
    /\ UNCHANGED <<icfg, train_files, test_files, ierror, training_data,
                   testing_data, train_ann, train_samples, test_ann,
                   test_samples, train_scaled, test_scaled, scalers, encoders,
                   training_dataset, testing_dataset, scaler_fits, reapplied>>
    /\ UNCHANGED <<train_features, test_features, ranker_calls>>
    /\ UNCHANGED notImport

\* lines 248-251
Transform ==
    /\ ipc = "transform"
    /\ train_dat' = transform_data(train_dat)
    /\ test_dat' = transform_data(test_dat)
    /\ ipc' = "normalize_train"
    /\ UNCHANGED <<icfg, train_files, test_files, ierror, training_data,
                   testing_data, train_ann, train_samples, test_ann,
                   test_samples, train_scaled, test_scaled, scalers, encoders,
                   training_dataset, testing_dataset, scaler_fits, reapplied>>
    /\ UNCHANGED <<train_features, test_features, ranker_calls>>
    /\ UNCHANGED notImport

\* line 255
NormalizeTrain ==
    /\ ipc = "normalize_train"
    /\ LET n == normalize_data(train_dat, "standard", TRUE, scalers)
       IN  /\ scalers' = n.scalers
           /\ scaler_fits' = IF n.fitted THEN Append(scaler_fits, "train")
                             ELSE scaler_fits
           /\ train_scaled' = n.out
           /\ ierror' = IF n.error = NoError THEN ierror
                        ELSE Raised(n.error, "normalize_train")
           /\ ipc' = IF n.error = NoError THEN "normalize_test" ELSE "raised"
    /\ UNCHANGED <<icfg, train_files, test_files, training_data, testing_data,
                   train_dat, train_ann, train_samples, test_dat, test_ann,
                   test_samples, test_scaled, encoders, training_dataset,
                   testing_dataset, reapplied>>
    /\ UNCHANGED <<train_features, test_features, ranker_calls>>
    /\ UNCHANGED notImport

\* line 256
NormalizeTest ==
    /\ ipc = "normalize_test"
    /\ LET n == normalize_data(test_dat, "standard", FALSE, scalers)
       IN  /\ scalers' = n.scalers
           /\ scaler_fits' = IF n.fitted THEN Append(scaler_fits, "test")
                             ELSE scaler_fits
           /\ test_scaled' = n.out
           /\ ierror' = IF n.error = NoError THEN ierror
                        ELSE Raised(n.error, "normalize_test")
           /\ ipc' = IF n.error = NoError THEN "dataset_train" ELSE "raised"
    /\ UNCHANGED <<icfg, train_files, test_files, training_data, testing_data,
                   train_dat, train_ann, train_samples, test_dat, test_ann,
                   test_samples, train_scaled, encoders, training_dataset,
                   testing_dataset, reapplied>>
    /\ UNCHANGED <<train_features, test_features, ranker_calls>>
    /\ UNCHANGED notImport

\* line 259
DatasetTrain ==
    /\ ipc = "dataset_train"
    /\ LET g == get_torch_dataset(train_scaled, train_ann, train_samples, encoders)
       IN  /\ encoders' = g.encoders
           /\ training_dataset' = g.dataset
    /\ ipc' = "dataset_test"
    /\ UNCHANGED <<icfg, train_files, test_files, ierror, training_data,
                   testing_data, train_dat, train_ann, train_samples, test_dat,
                   test_ann, test_samples, train_scaled, test_scaled, scalers,
                   testing_dataset, scaler_fits, reapplied>>
    /\ UNCHANGED <<train_features, test_features, ranker_calls>>
    /\ UNCHANGED notImport

\* line 260
DatasetTest ==
    /\ ipc = "dataset_test"
    /\ LET g == get_torch_dataset(test_scaled, test_ann, test_samples, encoders)
       IN  /\ encoders' = g.encoders
           /\ testing_dataset' = g.dataset
    /\ ipc' = IF icfg.concatenate THEN "concatenate" ELSE "done"
    /\ UNCHANGED <<icfg, train_files, test_files, ierror, training_data,
                   testing_data, train_dat, train_ann, train_samples, test_dat,
                   test_ann, test_samples, train_scaled, test_scaled, scalers,
                   training_dataset, scaler_fits, reapplied>>
    /\ UNCHANGED <<train_features, test_features, ranker_calls>>
    /\ UNCHANGED notImport

\* lines 263-268
Concatenate ==
    /\ ipc = "concatenate"
    /\ training_dataset' = Concatenated(training_dataset, icfg.data_types)
    /\ testing_dataset' = Concatenated(testing_dataset, icfg.data_types)
    /\ ipc' = "done"
    /\ UNCHANGED <<icfg, train_files, test_files, ierror, training_data,
                   testing_data, train_dat, train_ann, train_samples, test_dat,
                   test_ann, test_samples, train_scaled, test_scaled, scalers,
                   encoders, scaler_fits, reapplied>>
    /\ UNCHANGED <<train_features, test_features, ranker_calls>>
    /\ UNCHANGED notImport

\* after import_data returned: normalize_data(test_dat, fit=False) once more
NormalizeTestAgain ==
    /\ ipc = "done"
    /\ reapplied < MaxReapply
    /\ LET n == normalize_data(test_dat, "standard", FALSE, scalers)
       IN  /\ scalers' = n.scalers
           /\ scaler_fits' = IF n.fitted THEN Append(scaler_fits, "test")
                             ELSE scaler_fits
           /\ test_scaled' = n.out
    /\ reapplied' = reapplied + 1
    /\ UNCHANGED <<icfg, train_files, test_files, ipc, ierror, training_data,
                   testing_data, train_dat, train_ann, train_samples, test_dat,
                   test_ann, test_samples, train_scaled, encoders,
                   training_dataset, testing_dataset>>
    /\ UNCHANGED <<train_features, test_features, ranker_calls>>
    /\ UNCHANGED notImport

ImportNext ==
    \/ Validate
    \/ ReadTrain
    \/ ReadTest
    \/ ProcessTrain
    \/ ProcessTest
    \/ Harmonize
    \/ Transform
    \/ NormalizeTrain
    \/ NormalizeTest
    \/ DatasetTrain
    \/ DatasetTest
    \/ Concatenate
    \/ NormalizeTestAgain

ImportSpec == ImportInit /\ [][ImportNext]_vars

(***************************************************************************)
(* DataImporter.filter, called on its own                                  *)
(***************************************************************************)
MaxFilterFeatures == 4

MaxMinFeatures == 3

\* top_percentile, in whole percents
Percentiles == {0, 10, 25, 34, 50, 75, 100}

\* a layer of n features over two samples
FilterLayer(n, tag) == LayerFile([f \in 1 .. n |-> f], <<1, 2>>, tag, 0)

FilterInit ==
    /\ \E n \in 1 .. MaxFilterFeatures, m \in 1 .. 2,
          mf \in 0 .. MaxMinFeatures, tp \in Percentiles :
          fl_in = [dat |-> [x \in {"expr", "mut"} |->
                              IF x = "expr" THEN FilterLayer(n, 0)
                              ELSE FilterLayer(m, 1)],
                   min_features |-> mf, top_percentile |-> tp]
    /\ fl_requested = <<>>
    /\ fl_out = <<>>
    /\ fl_pc = "called"
    /\ IdleTriplet /\ IdleCleanup /\ IdleHarmonize /\ IdleLabels /\ IdleImport
    /\ IdleDataset /\ IdleNormalize

\* lines 379-382
FilterCall ==
    /\ fl_pc = "called"
    /\ fl_requested' =
          [x \in DOMAIN fl_in.dat |->
             FeatureCount(Len(fl_in.dat[x].index), fl_in.min_features,
                          fl_in.top_percentile)]
    /\ fl_out' \in filter(fl_in.dat, fl_in.min_features, fl_in.top_percentile)
    /\ fl_pc' = "returned"
    /\ UNCHANGED fl_in
    /\ UNCHANGED notFilter

FilterNext == FilterCall

FilterSpec == FilterInit /\ [][FilterNext]_vars

(***************************************************************************)
(* MultiomicDataset: __getitem__, __len__, get_feature_subset              *)
(***************************************************************************)
\* the layer names a feature table can hold, in the sorted order groupby
\* yields its groups in
SortedLayers == <<"cnv", "expr", "mut">>

\* feature_index_dict[name]: the last place of the name among the features
FeaturePos(features, name) ==
    CHOOSE k \in 1 .. Len(features) :
        /\ features[k] = name
        /\ \A j \in 1 .. Len(features) : features[j] = name => j <= k

\* lines 112-117 for one layer: the requested pairs of the layer whose name
\* is a feature of it, in the order of the table
LayerColumns(d, feature_df, layer) ==
    SelectSeq(feature_df,
              LAMBDA p : p.layer = layer /\ p.name \in Range(d.features[layer]))

\* the layers of the table that the dataset has, in groupby's order
RequestedLayers(d, feature_df) ==
    SelectSeq(SortedLayers,
              LAMBDA l : l \in DOMAIN d.dat /\ \E k \in 1 .. Len(feature_df) :
                                                  feature_df[k].layer = l)

RECURSIVE AllColumns(_, _, _)
AllColumns(d, feature_df, layers) ==
    IF layers = <<>> THEN <<>>
    ELSE LayerColumns(d, feature_df, Head(layers))
            \o AllColumns(d, feature_df, Tail(layers))

\* lines 95-128: [table, error]; pd.concat of no frame raises ValueError,
\* and so does an index of another length than the rows
get_feature_subset(d, feature_df) ==
    LET layers == RequestedLayers(d, feature_df)
        cols == AllColumns(d, feature_df, layers)
    IN  IF layers = <<>> THEN [table |-> <<>>, error |-> "ValueError"]
        ELSE IF \E k \in 1 .. Len(layers) : Len(d.dat[layers[k]]) # Len(d.samples)
        THEN [table |-> <<>>, error |-> "ValueError"]
        ELSE [table |->
                [index |-> d.samples,
                 columns |-> cols,
                 cells |-> [r \in 1 .. Len(d.samples) |->
                              [k \in 1 .. Len(cols) |->
                                 d.dat[cols[k].layer][r]
                                     [FeaturePos(d.features[cols[k].layer], cols[k].name)]]]],
              error |-> NoError]

MaxPairs == 2

\* the rows a feature table can have
Pairs == [layer : Range(SortedLayers), name : FeatureIds]

\* a dataset of n samples with the layers expr and mut
SmallDataset(n, mut_features) ==
    [dat |-> [x \in {"expr", "mut"} |->
                [r \in 1 .. n |->
                   IF x = "expr" THEN <<100 + r, 200 + r>>
                   ELSE [c \in 1 .. Len(mut_features) |-> 300 + (10 * c) + r]]],
     ann |-> [v \in {"y"} |-> [r \in 1 .. n |-> r % 2]],
     features |-> [x \in {"expr", "mut"} |->
                     IF x = "expr" THEN <<1, 2>> ELSE mut_features],
     samples |-> [r \in 1 .. n |-> 10 + r]]

DatasetInit ==
    /\ \E n \in 1 .. MaxSamples, mf \in { <<3>>, <<2, 3>> } : ds = SmallDataset(n, mf)
    /\ ds_call = NoCall
    /\ ds_out = <<>>
    /\ ds_error = NoError
    /\ IdleTriplet /\ IdleCleanup /\ IdleHarmonize /\ IdleLabels /\ IdleImport
    /\ IdleFilter /\ IdleNormalize

\* len(dataset)
LenCall ==
    /\ ds_call' = [op |-> "len", arg |-> 0]
    /\ ds_out' = len(ds)
    /\ ds_error' = NoError
    /\ UNCHANGED ds
    /\ UNCHANGED notDataset

\* dataset.get_feature_subset(feature_df)
GetFeatureSubset(feature_df) ==
    /\ ds_call' = [op |-> "get_feature_subset", arg |-> feature_df]
    /\ LET g == get_feature_subset(ds, feature_df)
       IN  /\ ds_out' = g.table
           /\ ds_error' = g.error
    /\ UNCHANGED ds
    /\ UNCHANGED notDataset

DatasetNext ==
    \/ \E i \in (0 - (MaxSamples + 1)) .. MaxSamples : DatasetGetItem(i)
    \/ LenCall
    \/ \E feature_df \in SeqsUpTo(Pairs, MaxPairs) : GetFeatureSubset(feature_df)

DatasetSpec == DatasetInit /\ [][DatasetNext]_vars

(***************************************************************************)
(* DataImporter.normalize_data, called on its own                          *)
(***************************************************************************)
\* the scaler_type arguments: the two kinds the code knows and another
ScalerTypeArgs == ScalerTypes \cup {"robust"}

\* the cohorts normalize_data is given: one layer
NormalizeCohorts ==
    { [x \in {"expr"} |-> LayerFile(ix, cols, 0, base)] :
        ix \in { <<1>>, <<1, 2>> }, cols \in { <<1, 2>>, <<1, 2, 3>> },
        base \in {0, 1} }

NormalizeInit ==
    /\ nz_scalers = NoScalers
    /\ nz_call = NoCall
    /\ nz_out = <<>>
    /\ nz_error = NoError
    /\ IdleTriplet /\ IdleCleanup /\ IdleHarmonize /\ IdleLabels /\ IdleImport
    /\ IdleFilter /\ IdleDataset

\* importer.normalize_data(data, scaler_type, fit)
NormalizeCall(data, scaler_type, fit) ==
    /\ nz_call' = [op |-> "normalize_data",
                   arg |-> [data |-> data, scaler_type |-> scaler_type, fit |-> fit]]
    /\ LET n == normalize_data(data, scaler_type, fit, nz_scalers)
       IN  /\ nz_scalers' = n.scalers
           /\ nz_out' = n.out
           /\ nz_error' = n.error
    /\ UNCHANGED notNormalize

NormalizeNext ==
    \E data \in NormalizeCohorts, scaler_type \in ScalerTypeArgs, fit \in BOOLEAN :
        NormalizeCall(data, scaler_type, fit)

NormalizeSpec == NormalizeInit /\ [][NormalizeNext]_vars

(***************************************************************************)
(* Claims                                                                  *)
(***************************************************************************)

C2_SingletonRaises ==
    [](  (tpc = "search" /\ Cardinality(label_to_indices[label]) = 1)
         => <>(tpc = "raised") )

\* C3: when only one label value exists, the positive search of a request is
\* never in a state it cannot leave (every draw giving back the anchor), so
\* that the request goes on to raise.
C3_OneLabelRaises ==
    (tpc = "search" /\ Cardinality(labels_set) = 1 /\ positive_index = index)
        => \E p \in label_to_indices[label] : p # index



\* C8: after cleanup_data all returned layers have the identical sample
\* (column) sequence, whatever the columns of the input layers were.
C8_SameSamples ==
    cl_runs >= 1 =>
        \A x \in DOMAIN cl_dat : \A y \in DOMAIN cl_dat :
            cl_dat[x].columns = cl_dat[y].columns

\* C9 (as claimed): cleanup_data applied to the output of a previous
\* cleanup_data call with the same thresholds returns every layer unchanged.
C9_IdempotentOnOutput == cl_runs >= 2 => cl_dat = cl_prev

\* a cohort with no near-constant feature, no feature with too many missing
\* cells, no missing cell and no sample that is uninformative in a layer
AlreadyClean(cohort, cfg) ==
    \A x \in DOMAIN cohort :
        /\ \A r \in 1 .. Len(cohort[x].index) :
              /\ Spread(cohort[x].cells[r]) * cfg.variance_threshold.den
                    > 4 * cfg.variance_threshold.num * Len(cohort[x].columns)
                        * (Len(cohort[x].columns) - 1)
              /\ \A c \in 1 .. Len(cohort[x].columns) : cohort[x].cells[r][c] # NaN
        /\ cfg.na_threshold.num > 0
        /\ Len(cohort[x].index) >= 2
        /\ \A c \in 1 .. Len(cohort[x].columns) :
              \E r \in 1 .. Len(cohort[x].index) :
                  cohort[x].cells[r][c] # cohort[x].cells[1][c]

\* C9 (amended): cleanup_data applied to a cohort that is already clean (every
\* feature above the variance threshold, no missing value, every sample
\* informative in every layer) returns every layer unchanged.
C9_NoOpOnCleanCohort ==
    (cl_runs >= 1 /\ AlreadyClean(cl_prev, cl_cfg)) => cl_dat = cl_prev

C9_Witness ==
    /\ cl_runs >= 1
    /\ AlreadyClean(cl_prev, cl_cfg)
    /\ DOMAIN cl_prev = {"expr", "mut"}
    /\ cl_prev["expr"].columns # cl_prev["mut"].columns

\* C4: after harmonize, for every configured layer the feature-id sequences
\* of train and test are identical, and they are the train feature ids that
\* also occur in test, in the order of the train index.
C4_SameFeatureSequence ==
    hz_pc = "returned" =>
        \A x \in Range(hz_types) :
            /\ hz_out.dat1[x].index = hz_out.dat2[x].index
            /\ hz_out.dat1[x].index =
                   FilterSeq(hz_in.dat1[x].index, Range(hz_in.dat2[x].index))

\* how often a label occurs in a sequence
Occurrences(s, e) == Cardinality({ k \in 1 .. Len(s) : s[k] = e })

\* a sequence without its immediate repetitions
RECURSIVE Collapsed(_)
Collapsed(s) ==
    IF Len(s) <= 1 THEN s
    ELSE IF s[1] = s[2] THEN Collapsed(Tail(s))
         ELSE <<s[1]>> \o Collapsed(Tail(s))

AfterTestNormalized == {"dataset_train", "dataset_test", "concatenate", "done"}

\* the parameters a standard scaler fitted on the harmonized (and, when
\* enabled, log-transformed) training layers holds
TrainFit == [x \in DOMAIN train_dat |-> FitScaler(train_dat[x], "standard")]

\* C5: within one import_data call the scalers are fitted exactly once, on
\* the training cohort; the apply step on the test cohort, however often it
\* is repeated, leaves self.scalers as fitted on train, and every test cell
\* is transformed with the parameters fitted on train for its feature.
C5_ScalersFittedOnTrainOnly ==
    /\ scaler_fits # <<>> =>
          /\ scaler_fits = <<"train">>
          /\ scalers = TrainFit
    /\ ipc \in AfterTestNormalized =>
          /\ scaler_fits = <<"train">>
          /\ \A x \in DOMAIN test_scaled :
                \A r \in 1 .. Len(test_scaled[x].index) :
                   \A c \in 1 .. Len(test_scaled[x].columns) :
                      test_scaled[x].cells[r][c].by = TrainFit[x].stats[r]

\* the apply step was repeated on a test cohort whose own fit would differ
\* from the stored one
C5_Witness ==
    /\ ipc = "done"
    /\ reapplied = MaxReapply
    /\ scaler_fits = <<"train">>
    /\ \E x \in DOMAIN test_dat :
          /\ Len(test_dat[x].index) >= 1
          /\ FitScaler(test_dat[x], "standard") # scalers[x]

\* the position of a named column
ColumnNamed(df, name) == CHOOSE c \in 1 .. Len(df.columns) : df.columns[c] = name

\* the variables encoded as categories by the training call and again by
\* the test call
TwiceEncoded ==
    { v \in Range(train_ann.columns) \cap Range(test_ann.columns) :
        /\ Len(train_ann.index) >= 1
        /\ IsCategorical(train_ann, ColumnNamed(train_ann, v))
        /\ IsCategorical(test_ann, ColumnNamed(test_ann, v)) }

\* C6: for a categorical variable whose encoder the earlier encode_labels
\* call (train) fitted, the later call (test) gives every value seen at fit
\* time the code the first call gave it, gives every other value -1, and
\* does not raise.
C6_EncoderDeterminism ==
    /\ ~(ipc = "raised" /\ ierror.stage = "dataset_test")
    /\ ipc \in {"concatenate", "done"} =>
          \A v \in TwiceEncoded :
             \A r \in 1 .. Len(test_ann.index) :
                LET value == test_ann.cells[r][ColumnNamed(test_ann, v)]
                    seen == { q \in 1 .. Len(train_ann.index) :
                                train_ann.cells[q][ColumnNamed(train_ann, v)] = value }
                IN  IF seen = {}
                    THEN testing_dataset.ann[v][r] = 0 - 1
                    ELSE \A q \in seen :
                            testing_dataset.ann[v][r] = training_dataset.ann[v][q]

\* a test table with a category seen at fit time and one not seen
C6_Witness ==
    /\ ipc = "done"
    /\ \E v \in TwiceEncoded :
          /\ \E r \in 1 .. Len(test_ann.index) : testing_dataset.ann[v][r] = 0 - 1
          /\ \E r \in 1 .. Len(test_ann.index) : testing_dataset.ann[v][r] >= 0

\* the statements of import_data that process the test cohort only
TestCohortSteps == {"process_test", "normalize_test", "dataset_test"}

\* a step of the test cohort's processing keeps the fitted state
KeepsFittedState ==
    ipc \in TestCohortSteps => (encoders' = encoders /\ scalers' = scalers)

\* C7: once the test cohort is being processed, self.encoders and
\* self.scalers are not modified, whatever the test annotation table is.
C7_FrozenDuringTest == [][KeepsFittedState]_vars

(***************************************************************************)
(* Claims about the datasets import_data returns                           *)
(***************************************************************************)
\* dat[layer] has one row per sample and one column per feature id, and
\* every annotation variable has one value per sample
WellShaped(d) ==
    /\ \A x \in DOMAIN d.dat :
          /\ Len(d.dat[x]) = Len(d.samples)
          /\ \A r \in 1 .. Len(d.dat[x]) : Len(d.dat[x][r]) = Len(d.features[x])
    /\ \A v \in DOMAIN d.ann : Len(d.ann[v]) = Len(d.samples)

\* C11: both datasets import_data returns, with or without concatenation,
\* have len(samples) rows in every layer, len(samples) values in every
\* annotation variable and as many feature ids as columns, also when a
\* sample id occurs more than once in clin.csv.
C11_DatasetShape ==
    ipc = "done" => WellShaped(training_dataset) /\ WellShaped(testing_dataset)

\* the required files a folder listing lacks
MissingFrom(files) == ({"clin"} \cup Range(icfg.data_types)) \ files

\* C12: when clin.csv or the file of a configured layer is missing from the
\* train or the test folder, import_data raises a ValueError that names
\* exactly the missing files of the offending folder (the train folder
\* first), with no file read and the encoders and scalers untouched.
C12_MissingFilesRaise ==
    (MissingFrom(train_files) # {} \/ MissingFrom(test_files) # {}) =>
        /\ ipc \in {"validate", "raised"}
        /\ ipc = "raised" =>
              /\ ierror.type = "ValueError"
              /\ ierror.stage = "validate"
              /\ IF MissingFrom(train_files) # {}
                 THEN ierror.folder = "training" /\ ierror.missing = MissingFrom(train_files)
                 ELSE ierror.folder = "testing" /\ ierror.missing = MissingFrom(test_files)
              /\ DOMAIN training_data = {}
              /\ DOMAIN testing_data = {}
              /\ DOMAIN encoders = {}
              /\ scalers = NoScalers
              /\ scaler_fits = <<>>

\* the train folder is complete and the test folder lacks two files
C12_Witness ==
    /\ ipc = "raised"
    /\ ierror.folder = "testing"
    /\ Cardinality(ierror.missing) = 2
    /\ MissingFrom(train_files) = {}

(***************************************************************************)
(* Claims about filter                                                     *)
(***************************************************************************)
\* floor(n * p / 100): the q with 100 q <= n p < 100 (q + 1)
FloorPercent(n, p) ==
    CHOOSE q \in 0 .. (n * p) : 100 * q <= n * p /\ n * p < 100 * (q + 1)

\* C13: for a training layer with n features the ranker is asked for
\* max(min_features, floor(n * top_percentile / 100)) features: 50 for
\* min_features = 10 and top_percentile = 5 on 1000 features, and
\* min_features where the percentile gives fewer.
C13_RequestedCount ==
    /\ FeatureCount(1000, 10, 5) = 50
    /\ fl_pc = "returned" =>
          \A x \in DOMAIN fl_in.dat :
             LET n == Len(fl_in.dat[x].index)
                 byPercent == FloorPercent(n, fl_in.top_percentile)
             IN  /\ fl_requested[x] >= fl_in.min_features
                 /\ fl_requested[x] >= byPercent
                 /\ fl_requested[x] \in {fl_in.min_features, byPercent}
                 /\ byPercent < fl_in.min_features => fl_requested[x] = fl_in.min_features
                 /\ Len(fl_out[x].index) = IF fl_requested[x] <= n THEN fl_requested[x] ELSE n

\* a call where the percentile decides one layer and min_features the other
C13_Witness ==
    /\ fl_pc = "returned"
    /\ fl_in.min_features >= 1
    /\ fl_requested["expr"] > fl_in.min_features
    /\ fl_requested["mut"] = fl_in.min_features

(***************************************************************************)
(* Claims about feature selection within import_data                       *)
(***************************************************************************)
\* the feature ids of every layer of a returned dataset lie among the ids
\* retained for training; after concatenation the layers are one list
FeaturesWithin(d, retained) ==
    \A x \in DOMAIN d.features :
       Range(d.features[x]) \subseteq
          IF x \in DOMAIN retained THEN Range(retained[x])
          ELSE UNION { Range(retained[y]) : y \in DOMAIN retained }

\* C14: the ranker is called on the training cohort only, never on the test
\* cohort, and every feature id of the returned test dataset is one of the
\* ids retained for that layer in training.
C14_RankerOnTrainOnly ==
    /\ \A k \in 1 .. Len(ranker_calls) : ranker_calls[k] = "train"
    /\ Len(ranker_calls) <= 1
    /\ ipc = "done" => FeaturesWithin(testing_dataset, train_features)

\* the ranker ran, and the test files had a feature that training did not
\* retain
C14_Witness ==
    /\ ipc = "done"
    /\ ranker_calls = <<"train">>
    /\ \E x \in DOMAIN train_features :
          ~(Range(testing_data[x].index) \subseteq Range(train_features[x]))

(***************************************************************************)
(* Claims about early fusion                                               *)
(***************************************************************************)
\* the number of features of the layers before the k-th of an order
Offset(scaled, order, k) ==
    SumSeq([i \in 1 .. (k - 1) |-> Len(scaled[order[i]].index)])

\* d holds the single layer "all": the layers of scaled side by side in the
\* given order, and their feature ids in that order
FusedBy(d, scaled, order) ==
    /\ DOMAIN d.dat = {"all"}
    /\ DOMAIN d.features = {"all"}
    /\ Len(d.features["all"]) = Offset(scaled, order, Len(order) + 1)
    /\ Len(d.dat["all"]) = Len(d.samples)
    /\ \A r \in 1 .. Len(d.samples) : Len(d.dat["all"][r]) = Len(d.features["all"])
    /\ \A k \in 1 .. Len(order) :
          \A f \in 1 .. Len(scaled[order[k]].index) :
             /\ d.features["all"][Offset(scaled, order, k) + f] = scaled[order[k]].index[f]
             /\ \A r \in 1 .. Len(d.samples) :
                   d.dat["all"][r][Offset(scaled, order, k) + f] =
                      scaled[order[k]].cells[f][r]

C16_IndexedAccess ==
    ds_call.op = "getitem" =>
        IF 0 <= ds_call.arg /\ ds_call.arg < Len(ds.samples)
        THEN /\ ds_error = NoError
             /\ \A x \in DOMAIN ds.dat : ds_out.dat[x] = ds.dat[x][ds_call.arg + 1]
             /\ \A v \in DOMAIN ds.ann : ds_out.ann[v] = ds.ann[v][ds_call.arg + 1]
        ELSE ds_error = "IndexError"

\* the requested pairs whose layer the dataset has and whose name is a
\* feature of that layer
ValidPairs(d, feature_df) ==
    { p \in Range(feature_df) :
        p.layer \in DOMAIN d.dat /\ p.name \in Range(d.features[p.layer]) }

\* C17: get_feature_subset returns, without raising, a table indexed by the
\* sample ids with exactly one column for every requested pair whose layer
\* and feature the dataset has; other pairs are skipped, also when every
\* requested layer is absent.
C17_FeatureSubset ==
    ds_call.op = "get_feature_subset" =>
        /\ ds_error = NoError
        /\ ds_out.index = ds.samples
        /\ Range(ds_out.columns) = ValidPairs(ds, ds_call.arg)

(***************************************************************************)
(* Claims about the scaler kind                                            *)
(***************************************************************************)
\* C18: a call of normalize_data that fits stores scalers of the selected
\* kind, standard or min_max, for every layer, and a call with any other
\* scaler kind ends in ValueError, whether it fits or applies.
C18_ScalerKind ==
    nz_call.op = "normalize_data" =>
        IF nz_call.arg.scaler_type \in {"standard", "min_max"}
        THEN (nz_call.arg.fit /\ nz_error = NoError) =>
                \A x \in DOMAIN nz_call.arg.data :
                   nz_scalers[x].kind = nz_call.arg.scaler_type
        ELSE nz_error = "ValueError"

(***************************************************************************)
(* Claims about sample alignment within import_data                        *)
(***************************************************************************)
\* the statements of import_data after process_data returned for a cohort
AfterProcessTrain ==
    {"process_test", "harmonize", "transform", "normalize_train",
     "normalize_test", "dataset_train", "dataset_test", "concatenate", "done"}

AfterProcessTest == AfterProcessTrain \ {"process_test"}

\* C19: when no sample is common to all layers and the annotation table of
\* a cohort, import_data raises at alignment: it does not go on past
\* process_data with zero samples, and returns no dataset of zero samples.
C19_EmptyAlignmentRaises ==
    /\ ipc \in AfterProcessTrain => Len(train_samples) > 0
    /\ ipc \in AfterProcessTest => Len(test_samples) > 0

(***************************************************************************)
(* Claims about the state of the datasets                                  *)
(***************************************************************************)
\* a step after construction keeps the dataset and both label mappings
KeepsDatasetState ==
    tpc # "new" =>
        /\ ds' = ds
        /\ ann_main' = ann_main
        /\ labels_set' = labels_set
        /\ label_to_indices' = label_to_indices

\* C20: indexed access and triplet sampling leave dat, ann, features,
\* samples, labels_set and label_to_indices as they are; the mappings built
\* at construction are never modified, however the calls interleave.
C20_ReadOnlyAccess == [][KeepsDatasetState]_vars

\* a triplet request returned after a direct dataset[i] call was answered
C20_Witness ==
    /\ tpc = "returned"
    /\ negative_index # None
    /\ ds_call.op = "getitem"
    /\ ds_error = NoError

(***************************************************************************)
(* Claims about the order of import_data's stages                          *)
(***************************************************************************)
\* the stages of one import_data run, in the order the statements of lines
\* 235-268 are written; every stage is followed by the next one or by the
\* exception it raises
StageOrder(cfg) ==
    <<"validate", "read_train", "read_test", "process_train", "process_test",
      "harmonize">>
    \o (IF cfg.log_transform THEN <<"transform">> ELSE <<>>)
    \o <<"normalize_train", "normalize_test", "dataset_train", "dataset_test">>
    \o (IF cfg.concatenate THEN <<"concatenate">> ELSE <<>>)
    \o <<"done">>

\* a step of import_data moves from one stage to the one written after it
InStageOrder ==
    ipc' # ipc =>
       \/ ipc' = "raised"
       \/ \E k \in 1 .. Len(StageOrder(icfg)) - 1 :
             /\ ipc = StageOrder(icfg)[k]
             /\ ipc' = StageOrder(icfg)[k + 1]

\* what process_data can return without raising
Processed(data, split) ==
    { g \in process_data(data, split, icfg) : g.error = NoError }

\* the training layers normalize_data is expected to see: processed,
\* harmonized with the processed test cohort and, when enabled, log1p'd
ExpectedTrainInputs ==
    { IF icfg.log_transform
      THEN transform_data(harmonize(icfg.data_types, g1.dat, g2.dat).dat1)
      ELSE harmonize(icfg.data_types, g1.dat, g2.dat).dat1 :
         g1 \in Processed(training_data, "train"),
         g2 \in Processed(testing_data, "test") }

\* what each stage has and has not produced when it is about to run
StageContents ==
    /\ ipc = "validate" => training_data = <<>> /\ testing_data = <<>>
    /\ ipc \in {"validate", "read_train", "read_test", "process_train"} =>
          train_dat = <<>> /\ test_dat = <<>> /\ ranker_calls = <<>>
    /\ ipc \in {"process_test", "harmonize"} =>
          /\ scaler_fits = <<>>
          /\ ranker_calls \in {<<>>, <<"train">>}
    /\ ipc = "harmonize" =>
          /\ \A x \in DOMAIN train_dat : train_dat[x].index = train_features[x]
          /\ \A x \in DOMAIN test_dat : test_dat[x].index = test_features[x]
    /\ ipc \in {"transform", "normalize_train"} =>
          /\ scaler_fits = <<>>
          /\ scalers = NoScalers
          /\ train_scaled = <<>>
          /\ test_scaled = <<>>
    /\ ipc = "normalize_test" =>
          /\ scaler_fits = <<"train">>
          /\ test_scaled = <<>>
          /\ encoders = <<>>
          /\ \E d \in ExpectedTrainInputs :
                /\ train_dat = d
                /\ scalers = [x \in DOMAIN d |-> FitScaler(d[x], "standard")]
    /\ ipc = "dataset_train" =>
          /\ encoders = <<>>
          /\ training_dataset = <<>>
          /\ testing_dataset = <<>>
    /\ ipc = "dataset_test" =>
          /\ encoders = encode_labels(train_ann, <<>>).encoders
          /\ training_dataset # <<>>
          /\ testing_dataset = <<>>
    /\ ipc = "concatenate" =>
          /\ DOMAIN training_dataset.dat = Range(icfg.data_types)
          /\ DOMAIN testing_dataset.dat = Range(icfg.data_types)
    /\ ipc = "done" =>
          DOMAIN training_dataset.dat =
             IF icfg.concatenate THEN {"all"} ELSE Range(icfg.data_types)

\* C21: import_data runs its stages in one order: folder validation, reading,
\* cleanup and alignment of train (with ranking) and then of test,
\* harmonization, log1p of both cohorts exactly when log_transform is set,
\* scaler fit on train and then apply on test, dataset construction for train
\* and then for test, concatenation when enabled; the scalers are fitted on
\* the harmonized (and, when enabled, log-transformed) training layers and
\* the training annotations are encoded before the test annotations.
C21_StageOrder == [][InStageOrder]_vars /\ []StageContents

\* a run with log_transform and concatenate set reached its end with fitted
\* scalers and encoders
C21_Witness ==
    /\ ipc = "done"
    /\ reapplied = 0
    /\ icfg.log_transform
    /\ icfg.concatenate
    /\ scaler_fits = <<"train">>
    /\ encoders # <<>>
    /\ \E x \in DOMAIN train_dat : Len(train_dat[x].index) >= 1

(***************************************************************************)
(* Claims about cleanup_data's sample mask and imputation                  *)
(***************************************************************************)
\* sample s is informative in layer df: the layer, after its feature
\* filters and imputation, has a column s whose standard deviation is
\* neither zero nor NaN
InformativeIn(df, cfg, s) ==
    LET cleaned == CleanedLayer(df, cfg)
    IN  \E c \in 1 .. Len(cleaned.columns) :
           /\ cleaned.columns[c] = s
           /\ Informative(ColumnOf(cleaned, c))

\* C22: a sample of a layer given to cleanup_data is among that layer's
\* returned samples if and only if it is informative in every layer of the
\* cohort.
C22_KeptIffInformative ==
    cl_runs >= 1 =>
       \A x \in DOMAIN cl_prev :
          \A s \in Range(cl_prev[x].columns) :
             s \in Range(cl_dat[x].columns)
                <=> \A y \in DOMAIN cl_prev : InformativeIn(cl_prev[y], cl_cfg, s)

\* the rows of an input layer whose variance is above the variance threshold
\* and whose missing fraction is below the missingness threshold (an
\* undefined variance counts as not above)
PassingRows(df, cfg) ==
    SortedSeq({ r \in 1 .. Len(df.index) :
                  /\ VarAbove(df.cells[r], cfg.variance_threshold)
                  /\ NaBelow(df.cells[r], cfg.na_threshold) })

\* the position of sample s among the columns of df
ColumnPos(df, s) == CHOOSE c \in 1 .. Len(df.columns) : df.columns[c] = s

\* the returned layer out holds the passing features of the input layer,
\* each missing cell replaced by the median of the feature's non-missing
\* cells and every other cell as it was
MedianImputed(in, out, cfg) ==
    LET passing == PassingRows(in, cfg)
    IN  /\ out.index = TakeSeq(in.index, passing)
        /\ \A k \in 1 .. Len(out.index) :
              \A c \in 1 .. Len(out.columns) :
                 LET was == in.cells[passing[k]][ColumnPos(in, out.columns[c])]
                 IN  out.cells[k][c] =
                        IF was = NaN THEN MedianOf(in.cells[passing[k]]) ELSE was

\* C23: for every cohort and all thresholds, no layer cleanup_data returns
\* holds a missing value: every feature it dropped is at or below the
\* variance threshold or at or above the missingness threshold, and every
\* feature it kept has its missing cells replaced by the feature's own median
\* over the non-missing samples and its other cells unchanged.
C23_NoMissingValues ==
    cl_runs >= 1 =>
       \A x \in DOMAIN cl_dat :
          /\ ~HasNaN(cl_dat[x])
          /\ MedianImputed(cl_prev[x], cl_dat[x], cl_cfg)

=============================================================================
